---- MODULE Spec2Model ----
(***************************************************************************)
(* Model of the PID tuning application (examples/pid_tuning_app):          *)
(*   - the telemetry store: eight deques of capacity max_points,           *)
(*   - the min/max display variables kept by update_minmax,                *)
(*   - the step-test flag and the StepResponseAnalyzer trace,              *)
(*   - StepResponseAnalyzer.analyze,                                       *)
(*   - the serial connection, the reader thread, data_queue and the        *)
(*     100 ms timer that drains it.                                        *)
(*                                                                         *)
(* Numbers.  A float value v is represented by the integer v * UNITS       *)
(* (UNITS = 400), so that both the binary fractions k/16 used as inputs    *)
(* and the two-decimal strings written by update_minmax are integers.      *)
(* Message times are integers in milliseconds, as sent by the controller.  *)
(* Values computed by analyze (means, ratios) are exact fractions          *)
(* <<num, den>>; den = 0 encodes the IEEE results of a division by zero    *)
(* (<<1,0>> = inf, <<-1,0>> = -inf, <<0,0>> = nan).                        *)
(***************************************************************************)
EXTENDS Integers, Sequences, FiniteSets, TLC

VARIABLES
    time_data, pv_data, sp_data, output_data,       \* the eight deques
    error_data, p_term_data, i_term_data, d_term_data,
    pv_min, pv_max, error_min, error_max,           \* min/max StringVars
    output_min, output_max,
    step_test_active,                               \* PIDTuningApp.step_test_active
    time_window,                                    \* PIDTuningApp.time_window (s)
    an_time, an_pv, an_sp, an_output,               \* StepResponseAnalyzer trace
    step_start_time, initial_value,                 \* StepResponseAnalyzer fields
    final_value, step_amplitude,
    result,                                         \* what the last analyze() call did
    calls,                                          \* history: analyze() calls so far
    log,                                            \* history: events handled so far
    serial_port,                                    \* PIDTuningApp.serial_port
    running,                                        \* PIDTuningApp.running
    thread,                                         \* position of serial_read_thread
    in_waiting,                                     \* bytes received, not yet read
    buffer,                                         \* serial_read_thread's buffer
    data_queue,                                     \* PIDTuningApp.data_queue
    tick,                                           \* position of update_plot_timer
    sent,                                           \* history: bytes the controller sent
    puts,                                           \* history: messages put on data_queue
    taken,                                          \* history: messages got from data_queue
    csv,                                            \* rows of the file written by save_data
    earlier                                         \* positions of the reader threads of earlier connections

store == <<time_data, pv_data, sp_data, output_data,
           error_data, p_term_data, i_term_data, d_term_data>>
extrema == <<pv_min, pv_max, error_min, error_max, output_min, output_max>>
trace == <<an_time, an_pv, an_sp, an_output>>
anfields == <<step_start_time, initial_value, final_value, step_amplitude>>
outcome == <<result, calls>>
session == <<serial_port, running, earlier>>
transport == <<thread, in_waiting, buffer, data_queue, tick, sent, puts, taken>>
files == <<csv>>
vars == <<store, extrema, step_test_active, time_window, trace, anfields,
          outcome, log, session, transport, files>>

-----------------------------------------------------------------------------
(* Bounds of the model *)

\* capacity of each deque (864000 in the program, scaled down)
max_points == 3
\* number of events (messages handled, operator actions) in one behaviour
MaxLog == 5
\* number of analyze() calls on one trace
MaxCalls == 2
\* number of bytes the controller sends in one behaviour
MaxSent == 4
\* number of events in one behaviour of the connection model
MaxSession == 4
\* number of messages put on data_queue in one behaviour of the queue model
MaxPuts == 3

-----------------------------------------------------------------------------
(* Numbers *)

\* sixteenths and hundredths are both whole numbers of units
UNITS == 16 * 25

Min2(a, b) == IF b < a THEN b ELSE a     \* Python min(a, b)
Max2(a, b) == IF b > a THEN b ELSE a     \* Python max(a, b)
Abs(a) == IF a < 0 THEN -a ELSE a

\* x / q rounded to the nearest integer, ties to even: the rounding of
\* Python's float formatting for an exactly representable value
RoundHalfEven(x, q) ==
    LET f == x \div q
        r == x % q
    IN  IF 2 * r < q THEN f
        ELSE IF 2 * r > q THEN f + 1
        ELSE IF f % 2 = 0 THEN f ELSE f + 1

\* The StringVar contents: NA is the string "N/A", <<k>> a numeric string.
\* For f"{v:.2f}" k counts hundredths, for f"{v:.0f}" k counts units.
NA == <<>>
Fmt2(v) == <<RoundHalfEven(v, UNITS \div 100)>>
Fmt0(v) == <<RoundHalfEven(v, UNITS)>>
\* float(s) of a string written by Fmt2 / Fmt0
Float2(s) == s[1] * (UNITS \div 100)
Float0(s) == s[1] * UNITS

\* msg['time'] / 1000.0
ToSeconds(ms) == (ms * UNITS) \div 1000

\* msg.get(key, default)
Get(msg, key, default) == IF key \in DOMAIN msg THEN msg[key] ELSE default

-----------------------------------------------------------------------------
(* Messages decoded by the serial reader *)

\* 'data' messages: pv, sp, output, error, P, I, D are binary fractions
\* (multiples of UNITS/16); P, I, D are optional
DataMsgs ==
    { [type |-> "data", time |-> 0, pv |-> 8025, sp |-> 8000,
       output |-> 51000, error |-> -75, P |-> 400, I |-> 200, D |-> 100],
      [type |-> "data", time |-> 40000, pv |-> 7800, sp |-> 8000,
       output |-> 52000, error |-> 200, P |-> 800, I |-> 300],
      [type |-> "data", time |-> 80000, pv |-> 8450, sp |-> 8400,
       output |-> 50600, error |-> -400] }

\* 'status' messages: the PID parameters and whether the loop runs
StatusMsgs == {[type |-> "status", kp |-> 800, ki |-> 200, kd |-> 100,
                sp |-> 8000, running |-> r] : r \in BOOLEAN}
StepTestStarted == [type |-> "step_test_started"]
StepTestComplete == [type |-> "step_test_complete"]
\* operator actions, recorded in the history only
ClearPlotEvent == [type |-> "clear_plot"]
SaveDataEvents == {[type |-> "save_data", filename |-> f] : f \in BOOLEAN}
\* no file has been written
NotSaved == <<>>
ClearMinmaxEvent == [type |-> "clear_minmax"]

\* values of the time-window dropdown that the message times can tell apart
TimeWindows == {30, 60}

-----------------------------------------------------------------------------
(* The telemetry store *)

\* mutant: a deque without maxlen
DequeAppend_NoEviction(q, x) == Append(q, x)

\* mutant: a full deque gives up its newest element
DequeAppend_EvictNewest(q, x) ==
    IF Len(q) >= max_points THEN Append(SubSeq(q, 1, Len(q) - 1), x)
    ELSE Append(q, x)

\* deque(maxlen = max_points).append: when full, the oldest element goes
DequeAppend(q, x) ==
    IF Len(q) >= max_points THEN Append(Tail(q), x) ELSE Append(q, x)

\* update_plot, 0-based index as in the program: the left edge of the plot
update_plot_x_min(td, tw) == Max2(0, td[Len(td)] - tw * UNITS)

\* mutant: t > x_min in place of t >= x_min
RECURSIVE ScanVisible_Strict(_, _, _)
ScanVisible_Strict(td, xmin, i) ==
    IF i >= Len(td) THEN 0
    ELSE IF td[i + 1] > xmin THEN i
    ELSE ScanVisible_Strict(td, xmin, i + 1)

RECURSIVE ScanVisible(_, _, _)
ScanVisible(td, xmin, i) ==
    IF i >= Len(td) THEN 0                    \* loop ended without break
    ELSE IF td[i + 1] >= xmin THEN i
    ELSE ScanVisible(td, xmin, i + 1)

\* update_plot: index of the first visible sample (store not empty)
update_plot_visible_start(td, tw) ==
    ScanVisible(td, update_plot_x_min(td, tw), 0)

\* update_plot: list(series)[visible_start:]
Visible(series, td, tw) ==
    SubSeq(series, update_plot_visible_start(td, tw) + 1, Len(series))

-----------------------------------------------------------------------------
(* StepResponseAnalyzer: reset and add_data *)

None == <<>>
Frac(n) == <<n, 1>>

reset ==
    /\ an_time' = <<>>
    /\ an_pv' = <<>>
    /\ an_sp' = <<>>
    /\ an_output' = <<>>
    /\ step_start_time' = None
    /\ initial_value' = Frac(0)
    /\ final_value' = Frac(0)
    /\ step_amplitude' = Frac(0)

\* mutant: pv and sp change places
add_data_Swapped(t, pv, sp, output) ==
    /\ an_time' = Append(an_time, t)
    /\ an_pv' = Append(an_pv, sp)
    /\ an_sp' = Append(an_sp, pv)
    /\ an_output' = Append(an_output, output)

add_data(t, pv, sp, output) ==
    /\ an_time' = Append(an_time, t)
    /\ an_pv' = Append(an_pv, pv)
    /\ an_sp' = Append(an_sp, sp)
    /\ an_output' = Append(an_output, output)

-----------------------------------------------------------------------------
(* The min/max display *)

\* mutant: the output maximum is updated with min
update_minmax_OutputMaxMin(pv, sp, output, error) ==
    /\ pv_min' = IF pv_min = NA THEN Fmt2(pv)
                 ELSE Fmt2(Min2(pv, Float2(pv_min)))
    /\ pv_max' = IF pv_max = NA THEN Fmt2(pv)
                 ELSE Fmt2(Max2(pv, Float2(pv_max)))
    /\ error_min' = IF error_min = NA THEN Fmt2(error)
                    ELSE Fmt2(Min2(error, Float2(error_min)))
    /\ error_max' = IF error_max = NA THEN Fmt2(error)
                    ELSE Fmt2(Max2(error, Float2(error_max)))
    /\ output_min' = IF output_min = NA THEN Fmt0(output)
                     ELSE Fmt0(Min2(output, Float0(output_min)))
    /\ output_max' = IF output_max = NA THEN Fmt0(output)
                     ELSE Fmt0(Min2(output, Float0(output_max)))

update_minmax(pv, sp, output, error) ==
    /\ pv_min' = IF pv_min = NA THEN Fmt2(pv)
                 ELSE Fmt2(Min2(pv, Float2(pv_min)))
    /\ pv_max' = IF pv_max = NA THEN Fmt2(pv)
                 ELSE Fmt2(Max2(pv, Float2(pv_max)))
    /\ error_min' = IF error_min = NA THEN Fmt2(error)
                    ELSE Fmt2(Min2(error, Float2(error_min)))
    /\ error_max' = IF error_max = NA THEN Fmt2(error)
                    ELSE Fmt2(Max2(error, Float2(error_max)))
    /\ output_min' = IF output_min = NA THEN Fmt0(output)
                     ELSE Fmt0(Min2(output, Float0(output_min)))
    /\ output_max' = IF output_max = NA THEN Fmt0(output)
                     ELSE Fmt0(Max2(output, Float0(output_max)))

\* mutant: the output min/max are not cleared
clear_minmax_KeepsOutput ==
    /\ Len(log) < MaxLog
    /\ pv_min' = NA
    /\ pv_max' = NA
    /\ error_min' = NA
    /\ error_max' = NA
    /\ log' = Append(log, ClearMinmaxEvent)
    /\ UNCHANGED <<store, output_min, output_max, step_test_active,
                   time_window, trace, anfields, outcome>>

clear_minmax ==
    /\ Len(log) < MaxLog
    /\ pv_min' = NA
    /\ pv_max' = NA
    /\ error_min' = NA
    /\ error_max' = NA
    /\ output_min' = NA
    /\ output_max' = NA
    /\ log' = Append(log, ClearMinmaxEvent)
    /\ UNCHANGED <<store, step_test_active, time_window, trace, anfields, outcome>>

-----------------------------------------------------------------------------
(* process_data: the body of the loop, one message *)

\* mutant: the stored error is recomputed as sp - pv
process_data_data_ErrorRecomputed(msg) ==
    /\ msg.type = "data"
    /\ Len(log) < MaxLog
    /\ LET t == ToSeconds(msg.time)
       IN  /\ time_data' = DequeAppend(time_data, t)
           /\ pv_data' = DequeAppend(pv_data, msg.pv)
           /\ sp_data' = DequeAppend(sp_data, msg.sp)
           /\ output_data' = DequeAppend(output_data, msg.output)
           /\ error_data' = DequeAppend(error_data, msg.sp - msg.pv)
           /\ p_term_data' = DequeAppend(p_term_data, Get(msg, "P", 0))
           /\ i_term_data' = DequeAppend(i_term_data, Get(msg, "I", 0))
           /\ d_term_data' = DequeAppend(d_term_data, Get(msg, "D", 0))
           /\ IF step_test_active
              THEN add_data(t, msg.pv, msg.sp, msg.output)
              ELSE UNCHANGED trace
           /\ update_minmax(msg.pv, msg.sp, msg.output, msg.error)
    /\ log' = Append(log, msg)
    /\ UNCHANGED <<step_test_active, time_window, anfields, outcome>>

process_data_data(msg) ==
    /\ msg.type = "data"
    /\ Len(log) < MaxLog
    /\ LET pv == msg.pv
           sp == msg.sp
           output == msg.output
           error == msg.error
           P == Get(msg, "P", 0)
           I == Get(msg, "I", 0)
           D == Get(msg, "D", 0)
           t == ToSeconds(msg.time)
       IN  /\ time_data' = DequeAppend(time_data, t)
           /\ pv_data' = DequeAppend(pv_data, msg.pv)
           /\ sp_data' = DequeAppend(sp_data, msg.sp)
           /\ output_data' = DequeAppend(output_data, msg.output)
           /\ error_data' = DequeAppend(error_data, msg.error)
           /\ p_term_data' = DequeAppend(p_term_data, P)
           /\ i_term_data' = DequeAppend(i_term_data, I)
           /\ d_term_data' = DequeAppend(d_term_data, D)
           /\ IF step_test_active
              THEN add_data(t, msg.pv, msg.sp, msg.output)
              ELSE UNCHANGED trace
           /\ update_minmax(pv, sp, output, error)
    /\ log' = Append(log, msg)
    /\ UNCHANGED <<step_test_active, time_window, anfields, outcome>>

\* mutant: the analyzer is not reset
process_data_step_test_started_NoReset ==
    /\ Len(log) < MaxLog
    /\ step_test_active' = TRUE
    /\ log' = Append(log, StepTestStarted)
    /\ UNCHANGED <<store, extrema, time_window, trace, anfields, outcome>>

process_data_step_test_started ==
    /\ Len(log) < MaxLog
    /\ step_test_active' = TRUE
    /\ reset
    /\ log' = Append(log, StepTestStarted)
    /\ UNCHANGED <<store, extrema, time_window, outcome>>

process_data_step_test_complete ==
    /\ Len(log) < MaxLog
    /\ step_test_active' = FALSE
    /\ log' = Append(log, StepTestComplete)
    /\ UNCHANGED <<store, extrema, time_window, trace, anfields, outcome>>

\* the 'status' branch: kp, ki, kd and sp go to the parameter entries,
\* running is stored and sets the state of the start and stop buttons
process_data_status(msg) ==
    /\ msg.type = "status"
    /\ Len(log) < MaxLog
    /\ running' = msg.running
    /\ log' = Append(log, msg)
    /\ UNCHANGED <<store, extrema, step_test_active, time_window, trace,
                   anfields, outcome>>

\* a message of any other type: no branch of the if/elif chain runs
process_data_other(msg) ==
    /\ msg.type \notin {"data", "status", "step_test_started",
                        "step_test_complete"}
    /\ Len(log) < MaxLog
    /\ log' = Append(log, msg)
    /\ UNCHANGED <<store, extrema, step_test_active, time_window, trace,
                   anfields, outcome>>

-----------------------------------------------------------------------------
(* Operator actions on the store *)

\* mutant: clear_plot also clears the min/max display
clear_plot_AndMinmax ==
    /\ Len(log) < MaxLog
    /\ time_data' = <<>>
    /\ pv_data' = <<>>
    /\ sp_data' = <<>>
    /\ output_data' = <<>>
    /\ error_data' = <<>>
    /\ p_term_data' = <<>>
    /\ i_term_data' = <<>>
    /\ d_term_data' = <<>>
    /\ pv_min' = NA
    /\ pv_max' = NA
    /\ error_min' = NA
    /\ error_max' = NA
    /\ output_min' = NA
    /\ output_max' = NA
    /\ log' = Append(log, ClearPlotEvent)
    /\ UNCHANGED <<step_test_active, time_window, trace, anfields, outcome>>

\* mutant: clear_plot also clears the PV min/max display
clear_plot_ResetsPv ==
    /\ Len(log) < MaxLog
    /\ time_data' = <<>>
    /\ pv_data' = <<>>
    /\ sp_data' = <<>>
    /\ output_data' = <<>>
    /\ error_data' = <<>>
    /\ p_term_data' = <<>>
    /\ i_term_data' = <<>>
    /\ d_term_data' = <<>>
    /\ pv_min' = NA
    /\ pv_max' = NA
    /\ log' = Append(log, ClearPlotEvent)
    /\ UNCHANGED <<error_min, error_max, output_min, output_max,
                   step_test_active, time_window, trace, anfields, outcome>>

\* clear_plot; its closing update_plot does nothing on an empty store
clear_plot ==
    /\ Len(log) < MaxLog
    /\ time_data' = <<>>
    /\ pv_data' = <<>>
    /\ sp_data' = <<>>
    /\ output_data' = <<>>
    /\ error_data' = <<>>
    /\ p_term_data' = <<>>
    /\ i_term_data' = <<>>
    /\ d_term_data' = <<>>
    /\ log' = Append(log, ClearPlotEvent)
    /\ UNCHANGED <<extrema, step_test_active, time_window, trace, anfields, outcome>>

\* the time-window dropdown sets time_window, update_time_window redraws
update_time_window(d) ==
    /\ d # time_window
    /\ time_window' = d
    /\ UNCHANGED <<store, extrema, step_test_active, trace, anfields, outcome, log>>

-----------------------------------------------------------------------------
(* The application: messages handled on the GUI tick, operator actions *)

\* result before analyze() has been called
NotCalled == [kind |-> "not_called", rise_time |-> None, overshoot |-> None,
              settling_time |-> None, steady_state_error |-> None]

Init ==
    /\ time_data = <<>>
    /\ pv_data = <<>>
    /\ sp_data = <<>>
    /\ output_data = <<>>
    /\ error_data = <<>>
    /\ p_term_data = <<>>
    /\ i_term_data = <<>>
    /\ d_term_data = <<>>
    /\ pv_min = NA
    /\ pv_max = NA
    /\ error_min = NA
    /\ error_max = NA
    /\ output_min = NA
    /\ output_max = NA
    /\ step_test_active = FALSE
    /\ time_window = 60
    /\ an_time = <<>>
    /\ an_pv = <<>>
    /\ an_sp = <<>>
    /\ an_output = <<>>
    /\ step_start_time = None
    /\ initial_value = Frac(0)
    /\ final_value = Frac(0)
    /\ step_amplitude = Frac(0)
    /\ result = NotCalled
    /\ calls = 0
    /\ log = <<>>
    /\ serial_port = None
    /\ running = FALSE
    /\ thread = "none"
    /\ in_waiting = <<>>
    /\ buffer = <<>>
    /\ data_queue = <<>>
    /\ tick = "after"
    /\ sent = <<>>
    /\ puts = <<>>
    /\ taken = <<>>
    /\ csv = NotSaved
    /\ earlier = <<>>

Next ==
    \/ \E msg \in DataMsgs :
          process_data_data(msg) /\ UNCHANGED <<session, transport, files>>
    \/ process_data_step_test_started /\ UNCHANGED <<session, transport, files>>
    \/ process_data_step_test_complete /\ UNCHANGED <<session, transport, files>>
    \/ clear_plot /\ UNCHANGED <<session, transport, files>>
    \/ clear_minmax /\ UNCHANGED <<session, transport, files>>
    \/ \E d \in TimeWindows :
          update_time_window(d) /\ UNCHANGED <<session, transport, files>>

Spec == Init /\ [][Next]_vars

-----------------------------------------------------------------------------
(* Exact fractions <<num, den>> for the values analyze computes *)

RECURSIVE GCD(_, _)
GCD(a, b) == IF b = 0 THEN a ELSE GCD(b, a % b)

Sign(n) == IF n > 0 THEN 1 ELSE IF n < 0 THEN -1 ELSE 0

\* lowest terms, positive denominator; a zero denominator (inf, -inf, nan)
\* keeps only the sign of the numerator
Norm(a) ==
    IF a[2] = 0 THEN <<Sign(a[1]), 0>>
    ELSE LET g == GCD(Abs(a[1]), Abs(a[2]))
             sg == Sign(a[2])
         IN  <<(sg * a[1]) \div g, (sg * a[2]) \div g>>

FAdd(a, b) == Norm(<<a[1] * b[2] + b[1] * a[2], a[2] * b[2]>>)
FSub(a, b) == Norm(<<a[1] * b[2] - b[1] * a[2], a[2] * b[2]>>)
FMul(a, b) == Norm(<<a[1] * b[1], a[2] * b[2]>>)
\* float division as numpy does it: x / 0 is inf, -inf or nan, not an error
FDiv(a, b) == Norm(<<a[1] * b[2], a[2] * b[1]>>)
FAbs(a) == <<Abs(a[1]), a[2]>>
\* comparisons of finite fractions
FGe(a, b) == a[1] * b[2] >= b[1] * a[2]
FGt(a, b) == a[1] * b[2] > b[1] * a[2]

RECURSIVE Sum(_)
Sum(s) == IF s = <<>> THEN 0 ELSE s[1] + Sum(Tail(s))

\* np.mean of a non-empty list
Mean(s) == Norm(<<Sum(s), Len(s)>>)

-----------------------------------------------------------------------------
(* StepResponseAnalyzer.analyze.  Indices are 0-based as in the program:   *)
(* element i of a list s is s[i + 1].  -1 stands for None in the index     *)
(* variables rise_start_idx and rise_end_idx.                              *)

\* mutant: the loop has no break, the last change of setpoint wins
RECURSIVE FindStep_Last(_, _)
FindStep_Last(sp, i) ==
    IF i >= Len(sp) THEN -1
    ELSE LET later == FindStep_Last(sp, i + 1)
         IN  IF later # -1 THEN later
             ELSE IF 10 * Abs(sp[i + 1] - sp[i]) > UNITS THEN i
             ELSE -1

\* mutant: the threshold is 0.01 in place of 0.1
RECURSIVE FindStep_LowThreshold(_, _)
FindStep_LowThreshold(sp, i) ==
    IF i >= Len(sp) THEN -1
    ELSE IF 100 * Abs(sp[i + 1] - sp[i]) > UNITS THEN i
    ELSE FindStep_LowThreshold(sp, i + 1)

\* for i in range(1, len(sp)): if abs(sp[i] - sp[i-1]) > 0.1: ... break
\* the index of the break, -1 when the loop runs to its else
RECURSIVE FindStep(_, _)
FindStep(sp, i) ==
    IF i >= Len(sp) THEN -1
    ELSE IF 10 * Abs(sp[i + 1] - sp[i]) > UNITS THEN i
    ELSE FindStep(sp, i + 1)

\* np.mean(pv[max(0, i-10):i])
InitialValue(pv, i) == Mean(SubSeq(pv, Max2(0, i - 10) + 1, i))

\* int(step_start_time * 10), for a time that is not negative
StartIndex(t) == (t * 10) \div UNITS

\* mutant: the loop has no break and no "is None" test, the last index that
\* reaches a threshold wins
RECURSIVE RiseScan_NoBreak(_, _, _, _, _)
RiseScan_NoBreak(pv, rise_10, rise_90, i, rs) ==
    IF i >= Len(pv) THEN <<rs, -1>>
    ELSE LET rs2 == IF FGe(Frac(pv[i + 1]), rise_10) THEN i ELSE rs
             rest == RiseScan_NoBreak(pv, rise_10, rise_90, i + 1, rs2)
         IN  IF rest[2] # -1 THEN rest
             ELSE IF FGe(Frac(pv[i + 1]), rise_90) THEN <<rs2, i>>
             ELSE rest

\* the rise-time loop from index i on, rise_start_idx = rs so far:
\* <<rise_start_idx, rise_end_idx>> when the loop is left
RECURSIVE RiseScan(_, _, _, _, _)
RiseScan(pv, rise_10, rise_90, i, rs) ==
    IF i >= Len(pv) THEN <<rs, -1>>
    ELSE LET rs2 == IF rs = -1 /\ FGe(Frac(pv[i + 1]), rise_10) THEN i ELSE rs
         IN  IF FGe(Frac(pv[i + 1]), rise_90) THEN <<rs2, i>>
             ELSE RiseScan(pv, rise_10, rise_90, i + 1, rs2)

\* if rise_start_idx and rise_end_idx: an index that is None or 0 is false
Truthy(idx) == idx # -1 /\ idx # 0

\* the settling loop: for i in range(len(pv) - 1, start, -1); the index of
\* the break, -1 when the loop runs to its else
RECURSIVE SettleScan(_, _, _, _, _)
SettleScan(pv, final, band, start, i) ==
    IF i <= start THEN -1
    ELSE IF FGt(FAbs(FSub(Frac(pv[i + 1]), final)), band) THEN i
    ELSE SettleScan(pv, final, band, start, i - 1)

\* the last min(len, n) elements: pv[-20:]
Last(s, n) == SubSeq(s, Len(s) - Min2(Len(s), n) + 1, Len(s))

MaxOf(s) == CHOOSE x \in {s[k] : k \in 1..Len(s)} :
                \A y \in {s[k] : k \in 1..Len(s)} : x >= y

\* what analyze returns: None, a metrics dict (None for a missing key), or
\* the exception it raises
ReturnNone == [kind |-> "None", rise_time |-> None, overshoot |-> None,
               settling_time |-> None, steady_state_error |-> None]
Raise == [kind |-> "raise", rise_time |-> None, overshoot |-> None,
          settling_time |-> None, steady_state_error |-> None]

\* the metrics, computed from the trace and from the four step fields as
\* they are once the step has been found (overshoot is a percentage,
\* represented in UNITS like every other value)
MetricsFrom(time, pv, sst, initial, final, amplitude) ==
    LET rise_10 == FAdd(initial, FMul(<<1, 10>>, amplitude))
        rise_90 == FAdd(initial, FMul(<<9, 10>>, amplitude))
        start == StartIndex(sst)
        rise == RiseScan(pv, rise_10, rise_90, start, -1)
        max_pv == MaxOf(SubSeq(pv, start + 1, Len(pv)))
        settling_band == FMul(<<2, 100>>, amplitude)
        b == SettleScan(pv, final, settling_band, start, Len(pv) - 1)
    IN  IF start >= Len(pv) THEN Raise       \* max() of an empty slice
        ELSE [kind |-> "metrics",
              rise_time |->
                  IF Truthy(rise[1]) /\ Truthy(rise[2])
                  THEN Frac(time[rise[2] + 1] - time[rise[1] + 1])
                  ELSE None,
              overshoot |->
                  FMul(FDiv(FSub(Frac(max_pv), final), amplitude), Frac(100 * UNITS)),
              settling_time |->
                  IF b # -1 THEN Frac(time[b + 1] - sst)
                  ELSE Frac(time[Len(time)] - sst),
              steady_state_error |-> FSub(final, Mean(Last(pv, 20)))]

\* the metrics computed once the step is found at index i
Metrics(time, pv, sp, i) ==
    MetricsFrom(time, pv, time[i + 1], InitialValue(pv, i), Frac(sp[i + 1]),
                FSub(Frac(sp[i + 1]), InitialValue(pv, i)))

\* mutant: nine samples are enough
AnalyzeResult_NineSamples(time, pv, sp) ==
    IF Len(time) < 9 THEN ReturnNone
    ELSE LET i == FindStep(sp, 1)
         IN  IF i = -1 THEN ReturnNone ELSE Metrics(time, pv, sp, i)

\* analyze(): the return value
AnalyzeResult(time, pv, sp) ==
    IF Len(time) < 10 THEN ReturnNone
    ELSE LET i == FindStep(sp, 1)
         IN  IF i = -1 THEN ReturnNone ELSE Metrics(time, pv, sp, i)

\* analyze(): whether the four step fields are assigned
StepFound(time, sp) == Len(time) >= 10 /\ FindStep(sp, 1) # -1

\* mutant: step_amplitude is computed before initial_value is assigned, from
\* the initial_value the previous call (or reset) left behind
analyze_StaleInitial ==
    /\ calls < MaxCalls
    /\ calls' = calls + 1
    /\ IF StepFound(an_time, an_sp)
       THEN LET i == FindStep(an_sp, 1)
            IN  /\ step_start_time' = Frac(an_time[i + 1])
                /\ initial_value' = InitialValue(an_pv, i)
                /\ final_value' = Frac(an_sp[i + 1])
                /\ step_amplitude' = FSub(Frac(an_sp[i + 1]), initial_value)
                /\ result' = MetricsFrom(an_time, an_pv, an_time[i + 1],
                                         InitialValue(an_pv, i), Frac(an_sp[i + 1]),
                                         FSub(Frac(an_sp[i + 1]), initial_value))
       ELSE /\ result' = ReturnNone
            /\ UNCHANGED anfields
    /\ UNCHANGED <<store, extrema, step_test_active, time_window, trace, log>>

analyze ==
    /\ calls < MaxCalls
    /\ calls' = calls + 1
    /\ result' = AnalyzeResult(an_time, an_pv, an_sp)
    /\ IF StepFound(an_time, an_sp)
       THEN LET i == FindStep(an_sp, 1)
            IN  /\ step_start_time' = Frac(an_time[i + 1])
                /\ initial_value' = InitialValue(an_pv, i)
                /\ final_value' = Frac(an_sp[i + 1])
                /\ step_amplitude' = FSub(Frac(an_sp[i + 1]), InitialValue(an_pv, i))
       ELSE UNCHANGED anfields
    /\ UNCHANGED <<store, extrema, step_test_active, time_window, trace, log>>

-----------------------------------------------------------------------------
(* The analyzer alone: analyze() on recorded traces *)

\* longest trace recorded
MaxTraceLen == 12

\* <<time of the first sample, sample period>> in ms: the nominal 10 Hz from
\* 0, a faster controller, and a controller that has been running for 0.5 s
Timings == {<<0, 100>>, <<0, 50>>, <<500, 100>>}

TraceTime(len, tm) == [k \in 1..len |-> ToSeconds(tm[1] + (k - 1) * tm[2])]

\* a sequence that holds pre up to index c1, a up to index c2, b from there
Steps(len, pre, c1, a, c2, b) ==
    [k \in 1..len |-> IF k - 1 < c1 THEN pre ELSE IF k - 1 < c2 THEN a ELSE b]

\* pre, then from any index on one of the values of Direct, or for one
\* sample the first and then the second value of a pair of Ramps
Shapes(len, pre, Direct, Ramps) ==
    {Steps(len, pre, c1, b, c1, b) : c1 \in 0..len, b \in Direct}
    \cup {Steps(len, pre, c1, r[1], c1 + 1, r[2]) : c1 \in 0..len, r \in Ramps}

\* setpoints: 20, then 30, 10 or 20.0625 (a change below the 0.1 threshold),
\* or 20.0625 for one sample and then 30, or 30 for one sample and back to 20
SpTraces(len) ==
    Shapes(len, 20 * UNITS, {30 * UNITS, 10 * UNITS, 8025},
           {<<8025, 30 * UNITS>>, <<30 * UNITS, 20 * UNITS>>})

\* process values: 20, then 10, 21, 30 or 31, or through 21 to 30 or 31, or
\* through 15 to 10
PvTraces(len) ==
    Shapes(len, 20 * UNITS, {10 * UNITS, 21 * UNITS, 30 * UNITS, 31 * UNITS},
           {<<21 * UNITS, 30 * UNITS>>, <<21 * UNITS, 31 * UNITS>>,
            <<15 * UNITS, 10 * UNITS>>})

\* the analyzer after reset() and len calls of add_data
InitAnalyze ==
    /\ time_data = <<>>
    /\ pv_data = <<>>
    /\ sp_data = <<>>
    /\ output_data = <<>>
    /\ error_data = <<>>
    /\ p_term_data = <<>>
    /\ i_term_data = <<>>
    /\ d_term_data = <<>>
    /\ pv_min = NA
    /\ pv_max = NA
    /\ error_min = NA
    /\ error_max = NA
    /\ output_min = NA
    /\ output_max = NA
    /\ step_test_active = FALSE
    /\ time_window = 60
    /\ \E len \in 0..MaxTraceLen :
          /\ \E tm \in Timings : an_time = TraceTime(len, tm)
          /\ an_pv \in PvTraces(len)
          /\ an_sp \in SpTraces(len)
          /\ an_output = [k \in 1..len |-> 0]
    /\ step_start_time = None
    /\ initial_value = Frac(0)
    /\ final_value = Frac(0)
    /\ step_amplitude = Frac(0)
    /\ result = NotCalled
    /\ calls = 0
    /\ log = <<>>
    /\ serial_port = None
    /\ running = FALSE
    /\ thread = "none"
    /\ in_waiting = <<>>
    /\ buffer = <<>>
    /\ data_queue = <<>>
    /\ tick = "after"
    /\ sent = <<>>
    /\ puts = <<>>
    /\ taken = <<>>
    /\ csv = NotSaved
    /\ earlier = <<>>

NextAnalyze == analyze /\ UNCHANGED <<session, transport, files>>

SpecAnalyze == InitAnalyze /\ [][NextAnalyze]_vars

-----------------------------------------------------------------------------
(* save_data *)

\* mutant: the time column is the stored time
save_data_AbsoluteTime(filename) ==
    /\ Len(log) < MaxLog
    /\ IF Len(time_data) = 0 \/ ~filename
       THEN UNCHANGED csv
       ELSE csv' = [i \in 1..Len(time_data) |->
                      <<time_data[i], pv_data[i], sp_data[i],
                        output_data[i], error_data[i], p_term_data[i],
                        i_term_data[i], d_term_data[i]>>]
    /\ log' = Append(log, [type |-> "save_data", filename |-> filename])
    /\ UNCHANGED <<store, extrema, step_test_active, time_window, trace,
                   anfields, outcome, session, transport>>

\* save_data: nothing on an empty store or when the file dialog is
\* cancelled (filename is FALSE); else the rows written after the header
save_data(filename) ==
    /\ Len(log) < MaxLog
    /\ IF Len(time_data) = 0 \/ ~filename
       THEN UNCHANGED csv
       ELSE LET t0 == time_data[1]
            IN  csv' = [i \in 1..Len(time_data) |->
                          <<time_data[i] - t0, pv_data[i], sp_data[i],
                            output_data[i], error_data[i], p_term_data[i],
                            i_term_data[i], d_term_data[i]>>]
    /\ log' = Append(log, [type |-> "save_data", filename |-> filename])
    /\ UNCHANGED <<store, extrema, step_test_active, time_window, trace,
                   anfields, outcome, session, transport>>

NextSave ==
    \/ \E msg \in DataMsgs :
          process_data_data(msg) /\ UNCHANGED <<session, transport, files>>
    \/ clear_plot /\ UNCHANGED <<session, transport, files>>
    \/ \E filename \in BOOLEAN : save_data(filename)

SpecSave == Init /\ [][NextSave]_vars

-----------------------------------------------------------------------------
(* The serial line: bytes, lines, json.loads *)

\* an open serial.Serial object
SerialOpen == <<"is_open">>

\* Bytes on the line.  "D", "B", "K" and "[" each stand for a whole text:
\* "D" a complete 'data' message, "B" {"type": "step_test_started"},
\* "K" {"type": "data"} (a 'data' message without its fields), "[" a text
\* of brackets nested deeper than the interpreter's recursion limit;
\* "x" is a character that is not JSON.  "E1" and "E2" are the two halves
\* of the text {"type": "\u00e9"} cut inside the two-byte UTF-8 character:
\* "E1" ends with its first byte, "E2" starts with its second byte.
Bytes == {"\n", " ", "x", "[", "D", "B", "K", "E1", "E2"}

Whitespace == {" "}

Sample == CHOOSE m \in DataMsgs : m.time = 0
BareData == [type |-> "data"]
\* the message of the text "E1" "E2"
Accent == [type |-> "e-acute"]

\* bytes.decode('utf-8') succeeds on a chunk: every first byte of the
\* two-byte character is followed by its second byte within the chunk
Utf8(chunk) ==
    \A k \in 1..Len(chunk) :
       /\ chunk[k] = "E1" => (k < Len(chunk) /\ chunk[k + 1] = "E2")
       /\ chunk[k] = "E2" => (k > 1 /\ chunk[k - 1] = "E1")

\* index of the first "\n" of a buffer that has one
FirstNewline(b) ==
    CHOOSE k \in 1..Len(b) : b[k] = "\n" /\ \A j \in 1..(k - 1) : b[j] # "\n"

HasNewline(b) == \E k \in 1..Len(b) : b[k] = "\n"

\* line, buffer = buffer.split('\n', 1)
SplitLine(b) == SubSeq(b, 1, FirstNewline(b) - 1)
SplitRest(b) == SubSeq(b, FirstNewline(b) + 1, Len(b))

\* line.strip()
strip(line) ==
    LET K == {k \in 1..Len(line) : line[k] \notin Whitespace}
    IN  IF K = {} THEN <<>>
        ELSE SubSeq(line, CHOOSE k \in K : \A j \in K : k <= j,
                          CHOOSE k \in K : \A j \in K : k >= j)

\* json.loads(line) for a stripped line that is not empty: the value, or the
\* exception raised
loads(line) ==
    IF line[1] = "[" THEN [raises |-> "RecursionError"]
    ELSE IF line = <<"D">> THEN [raises |-> "no", msg |-> Sample]
    ELSE IF line = <<"B">> THEN [raises |-> "no", msg |-> StepTestStarted]
    ELSE IF line = <<"K">> THEN [raises |-> "no", msg |-> BareData]
    ELSE IF line = <<"E1", "E2">> THEN [raises |-> "no", msg |-> Accent]
    ELSE [raises |-> "JSONDecodeError"]

-----------------------------------------------------------------------------
(* The controller, serial_read_thread, update_plot_timer *)

\* the controller writes one byte to the line
Send(c) ==
    /\ Len(sent) < MaxSent
    /\ in_waiting' = Append(in_waiting, c)
    /\ sent' = Append(sent, c)
    /\ UNCHANGED <<store, extrema, step_test_active, time_window, trace,
                   anfields, outcome, files, log, session,
                   thread, buffer, data_queue, tick, puts, taken>>

\* if self.serial_port.in_waiting: data = read(in_waiting).decode('utf-8');
\* buffer += data; UnicodeDecodeError reaches the outer handler, which
\* breaks out of the thread's loop
serial_read_thread_read ==
    /\ thread = "poll"
    /\ serial_port # None
    /\ in_waiting # <<>>
    /\ buffer' = IF Utf8(in_waiting) THEN buffer \o in_waiting ELSE buffer
    /\ in_waiting' = <<>>
    /\ thread' = IF ~Utf8(in_waiting) THEN "ended"
                 ELSE IF HasNewline(buffer') THEN "lines"
                 ELSE "poll"
    /\ UNCHANGED <<store, extrema, step_test_active, time_window, trace,
                   anfields, outcome, files, log, session,
                   data_queue, tick, sent, puts, taken>>

\* mutant: the reader sets step_test_active itself
serial_read_thread_line_SetsFlag ==
    /\ thread = "lines"
    /\ LET line == strip(SplitLine(buffer))
           value == IF line = <<>> THEN [raises |-> "empty"] ELSE loads(line)
       IN  /\ buffer' = SplitRest(buffer)
           /\ IF value.raises = "no"
              THEN /\ data_queue' = Append(data_queue, value.msg)
                   /\ puts' = Append(puts, value.msg)
                   /\ step_test_active' =
                         (step_test_active \/ value.msg = StepTestStarted)
              ELSE UNCHANGED <<data_queue, puts, step_test_active>>
           /\ thread' = IF value.raises = "RecursionError" THEN "ended"
                        ELSE IF HasNewline(buffer') THEN "lines"
                        ELSE "poll"
    /\ UNCHANGED <<store, extrema, time_window, trace,
                   anfields, outcome, files, log, session,
                   in_waiting, tick, sent, taken>>

\* one turn of "while '\n' in buffer": split off a line, strip it, and if it
\* is not empty put json.loads(line) on data_queue; JSONDecodeError is
\* passed over, any other exception reaches the outer handler, which breaks
\* out of the thread's loop
serial_read_thread_line ==
    /\ thread = "lines"
    /\ LET line == strip(SplitLine(buffer))
           value == IF line = <<>> THEN [raises |-> "empty"] ELSE loads(line)
       IN  /\ buffer' = SplitRest(buffer)
           /\ IF value.raises = "no"
              THEN /\ data_queue' = Append(data_queue, value.msg)
                   /\ puts' = Append(puts, value.msg)
              ELSE UNCHANGED <<data_queue, puts>>
           /\ thread' = IF value.raises = "RecursionError" THEN "ended"
                        ELSE IF HasNewline(buffer') THEN "lines"
                        ELSE "poll"
    /\ UNCHANGED <<store, extrema, step_test_active, time_window, trace,
                   anfields, outcome, files, log, session,
                   in_waiting, tick, sent, taken>>

\* update_plot_timer is called and calls process_data
update_plot_timer ==
    /\ tick = "after"
    /\ tick' = "process_data"
    /\ UNCHANGED <<store, extrema, step_test_active, time_window, trace,
                   anfields, outcome, files, log, session,
                   thread, in_waiting, buffer, data_queue, sent, puts, taken>>

\* the keys process_data reads with msg[...] before it stores anything:
\* 'type', then those of the 'data' or of the 'status' branch
HasFields(msg) ==
    /\ "type" \in DOMAIN msg
    /\ msg.type = "data" =>
          {"pv", "sp", "output", "error", "time"} \subseteq DOMAIN msg
    /\ msg.type = "status" =>
          {"kp", "ki", "kd", "sp", "running"} \subseteq DOMAIN msg

\* the if/elif chain on msg['type']
process_data_branch(msg) ==
    \/ msg.type = "data" /\ process_data_data(msg) /\ UNCHANGED running
    \/ msg.type = "status" /\ process_data_status(msg)
    \/ /\ msg.type = "step_test_started"
       /\ process_data_step_test_started
       /\ UNCHANGED running
    \/ /\ msg.type = "step_test_complete"
       /\ process_data_step_test_complete
       /\ UNCHANGED running
    \/ process_data_other(msg) /\ UNCHANGED running

\* mutant: the newest message is taken first
process_data_get_Newest ==
    /\ tick = "process_data"
    /\ data_queue # <<>>
    /\ LET msg == data_queue[Len(data_queue)]
       IN  /\ HasFields(msg)
           /\ process_data_branch(msg)
           /\ taken' = Append(taken, msg)
    /\ data_queue' = SubSeq(data_queue, 1, Len(data_queue) - 1)
    /\ UNCHANGED <<serial_port, earlier, files, thread, in_waiting, buffer, tick,
                   sent, puts>>

\* one turn of process_data's loop: get_nowait() returns the oldest message
\* and its branch runs
process_data_get ==
    /\ tick = "process_data"
    /\ data_queue # <<>>
    /\ LET msg == Head(data_queue)
       IN  /\ HasFields(msg)
           /\ process_data_branch(msg)
           /\ taken' = Append(taken, msg)
    /\ data_queue' = Tail(data_queue)
    /\ UNCHANGED <<serial_port, earlier, files, thread, in_waiting, buffer, tick,
                   sent, puts>>

\* a message without a key that is read: msg['type'], msg['pv'], msg['kp']
\* raises KeyError (TypeError when the message is not an object), which
\* process_data does not catch; update_plot_timer ends without calling
\* root.after again
process_data_KeyError ==
    /\ tick = "process_data"
    /\ data_queue # <<>>
    /\ ~HasFields(Head(data_queue))
    /\ taken' = Append(taken, Head(data_queue))
    /\ data_queue' = Tail(data_queue)
    /\ tick' = "raised"
    /\ UNCHANGED <<store, extrema, step_test_active, time_window, trace,
                   anfields, outcome, files, log, session,
                   thread, in_waiting, buffer, sent, puts>>

\* get_nowait() raises queue.Empty: process_data returns, update_plot
\* redraws, root.after(100, ...) schedules the next call
process_data_Empty ==
    /\ tick = "process_data"
    /\ data_queue = <<>>
    /\ tick' = "after"
    /\ UNCHANGED <<store, extrema, step_test_active, time_window, trace,
                   anfields, outcome, files, log, session,
                   thread, in_waiting, buffer, data_queue, sent, puts, taken>>

\* the application connected to a controller: connect_serial has opened the
\* port and started serial_read_thread
InitTick ==
    /\ time_data = <<>>
    /\ pv_data = <<>>
    /\ sp_data = <<>>
    /\ output_data = <<>>
    /\ error_data = <<>>
    /\ p_term_data = <<>>
    /\ i_term_data = <<>>
    /\ d_term_data = <<>>
    /\ pv_min = NA
    /\ pv_max = NA
    /\ error_min = NA
    /\ error_max = NA
    /\ output_min = NA
    /\ output_max = NA
    /\ step_test_active = FALSE
    /\ time_window = 60
    /\ an_time = <<>>
    /\ an_pv = <<>>
    /\ an_sp = <<>>
    /\ an_output = <<>>
    /\ step_start_time = None
    /\ initial_value = Frac(0)
    /\ final_value = Frac(0)
    /\ step_amplitude = Frac(0)
    /\ result = NotCalled
    /\ calls = 0
    /\ log = <<>>
    /\ serial_port = SerialOpen
    /\ running = FALSE
    /\ thread = "poll"
    /\ in_waiting = <<>>
    /\ buffer = <<>>
    /\ data_queue = <<>>
    /\ tick = "after"
    /\ sent = <<>>
    /\ puts = <<>>
    /\ taken = <<>>
    /\ csv = NotSaved
    /\ earlier = <<>>

NextTick ==
    \/ \E c \in Bytes : Send(c)
    \/ serial_read_thread_read
    \/ serial_read_thread_line
    \/ update_plot_timer
    \/ process_data_get
    \/ process_data_KeyError
    \/ process_data_Empty

SpecTick == InitTick /\ [][NextTick]_vars

-----------------------------------------------------------------------------
(* data_queue fed with any decoded JSON value *)

BareStatus == [type |-> "status"]
\* a message of a type process_data has no branch for
Pong == [type |-> "pong"]
\* a JSON object without 'type'
NoType == [pv |-> 8025]
\* a JSON value that is not an object (the number 5): msg['type'] raises
\* TypeError
NotObject == [number |-> 5]

QueueMsgs ==
    {Sample, BareData, StepTestStarted, StepTestComplete, BareStatus,
     Pong, NoType, NotObject}
    \cup {m \in StatusMsgs : m.running}

\* self.data_queue.put(msg) with the value of a line that decoded
data_queue_put(msg) ==
    /\ Len(puts) < MaxPuts
    /\ data_queue' = Append(data_queue, msg)
    /\ puts' = Append(puts, msg)
    /\ UNCHANGED <<store, extrema, step_test_active, time_window, trace,
                   anfields, outcome, files, log, session,
                   thread, in_waiting, buffer, tick, sent, taken>>

NextDrain ==
    \/ \E msg \in QueueMsgs : data_queue_put(msg)
    \/ update_plot_timer
    \/ process_data_get
    \/ process_data_KeyError
    \/ process_data_Empty

SpecDrain == InitTick /\ [][NextDrain]_vars

-----------------------------------------------------------------------------
(* The connection: toggle_connection, 'status' messages *)

\* operator actions, recorded in the history only
ConnectEvent == [type |-> "connect_serial"]
DisconnectEvent == [type |-> "disconnect_serial"]

\* a reader thread that has not left "while self.serial_port and ..."
InLoop(pc) == pc \in {"poll", "is_open", "body", "lines"}

\* toggle_connection with no port open: connect_serial; serial.Serial may
\* raise, and then nothing is changed
connect_serial ==
    /\ serial_port = None
    /\ Len(log) < MaxSession
    /\ \E opened \in BOOLEAN :
          IF opened
          THEN /\ serial_port' = SerialOpen
               /\ thread' = "poll"
               /\ buffer' = <<>>
               /\ earlier' = IF InLoop(thread)
                             THEN Append(earlier, thread) ELSE earlier
          ELSE UNCHANGED <<serial_port, thread, buffer, earlier>>
    /\ log' = Append(log, ConnectEvent)
    /\ UNCHANGED <<store, extrema, step_test_active, time_window, trace,
                   anfields, outcome, files, running,
                   in_waiting, data_queue, tick, sent, puts, taken>>

\* mutant: disconnecting ends the step test
disconnect_serial_EndsStepTest ==
    /\ serial_port # None
    /\ Len(log) < MaxSession
    /\ serial_port' = None
    /\ in_waiting' = <<>>
    /\ step_test_active' = FALSE
    /\ log' = Append(log, DisconnectEvent)
    /\ UNCHANGED <<store, extrema, time_window, trace,
                   anfields, outcome, files, running, earlier,
                   thread, buffer, data_queue, tick, sent, puts, taken>>

\* toggle_connection with a port open: disconnect_serial closes it
disconnect_serial ==
    /\ serial_port # None
    /\ Len(log) < MaxSession
    /\ serial_port' = None
    /\ in_waiting' = <<>>
    /\ log' = Append(log, DisconnectEvent)
    /\ UNCHANGED <<store, extrema, step_test_active, time_window, trace,
                   anfields, outcome, files, running, earlier,
                   thread, buffer, data_queue, tick, sent, puts, taken>>

\* "while self.serial_port and self.serial_port.is_open" is false
serial_read_thread_exit ==
    /\ thread = "poll"
    /\ serial_port = None
    /\ thread' = "ended"
    /\ UNCHANGED <<store, extrema, step_test_active, time_window, trace,
                   anfields, outcome, files, log, session,
                   in_waiting, buffer, data_queue, tick, sent, puts, taken>>

NextSession ==
    \/ /\ Len(log) < MaxSession
       /\ process_data_data(Sample)
       /\ UNCHANGED <<session, transport, files>>
    \/ /\ Len(log) < MaxSession
       /\ process_data_step_test_started
       /\ UNCHANGED <<session, transport, files>>
    \/ /\ Len(log) < MaxSession
       /\ process_data_step_test_complete
       /\ UNCHANGED <<session, transport, files>>
    \/ \E msg \in StatusMsgs :
          /\ Len(log) < MaxSession
          /\ process_data_status(msg)
          /\ UNCHANGED <<serial_port, earlier, transport, files>>
    \/ /\ Len(log) < MaxSession
       /\ clear_plot
       /\ UNCHANGED <<session, transport, files>>
    \/ /\ Len(log) < MaxSession
       /\ clear_minmax
       /\ UNCHANGED <<session, transport, files>>
    \/ connect_serial
    \/ disconnect_serial
    \/ serial_read_thread_exit

SpecSession == Init /\ [][NextSession]_vars

-----------------------------------------------------------------------------
\* Reader threads across reconnects.  connect_serial starts a thread without
\* joining the one before it, and every thread tests the attribute
\* self.serial_port, whichever connection it was started for.

\* one step of a reader thread with nothing to read, the port being `port`:
\*   "poll"    evaluates "self.serial_port" in the while condition
\*   "is_open" evaluates "self.serial_port.is_open", outside the try
\*   "body"    evaluates "self.serial_port.in_waiting", inside the try
LoopStep(pc, port) ==
    CASE pc = "poll"    -> IF port = None THEN "ended" ELSE "is_open"
      [] pc = "is_open" -> IF port = None THEN "crashed" ELSE "body"
      [] pc = "body"    -> IF port = None THEN "ended" ELSE "poll"

\* a step of the thread of the latest connection
serial_read_thread_loop ==
    /\ thread \in {"poll", "is_open", "body"}
    /\ in_waiting = <<>>
    /\ thread' = LoopStep(thread, serial_port)
    /\ UNCHANGED <<store, extrema, step_test_active, time_window, trace,
                   anfields, outcome, files, log, session,
                   in_waiting, buffer, data_queue, tick, sent, puts, taken>>

\* a step of the thread of an earlier connection
serial_read_thread_earlier(i) ==
    /\ earlier[i] \in {"poll", "is_open", "body"}
    /\ in_waiting = <<>>
    /\ earlier' = [earlier EXCEPT ![i] = LoopStep(@, serial_port)]
    /\ UNCHANGED <<store, extrema, step_test_active, time_window, trace,
                   anfields, outcome, files, log, serial_port, running,
                   transport>>

NextReconnect ==
    \/ connect_serial
    \/ disconnect_serial
    \/ serial_read_thread_loop
    \/ \E i \in 1..Len(earlier) : serial_read_thread_earlier(i)

SpecReconnect == Init /\ [][NextReconnect]_vars

-----------------------------------------------------------------------------
(* What the history says *)

IsData(e) == e.type = "data"

\* position in the history of the last event ev, 0 when there is none
LastIndexOf(ev) ==
    LET S == {i \in 1..Len(log) : log[i] = ev}
    IN  IF S = {} THEN 0 ELSE CHOOSE i \in S : \A j \in S : j <= i

\* the 'data' messages handled after position k of the history
DataAfter(k) == SelectSeq(SubSeq(log, k + 1, Len(log)), IsData)

\* the 'data' messages handled since the last clear_plot / clear_minmax
Ingested == DataAfter(LastIndexOf(ClearPlotEvent))
SinceClearMinmax == DataAfter(LastIndexOf(ClearMinmaxEvent))

\* the last min(Len(s), n) elements of s
LastN(s, n) == SubSeq(s, Len(s) - Min2(Len(s), n) + 1, Len(s))

\* the samples the store should hold
Retained == LastN(Ingested, max_points)

\* the 'data' messages handled while the most recent step test was active
Recorded ==
    LET k == LastIndexOf(StepTestStarted)
        C == {i \in (k + 1)..Len(log) : log[i] = StepTestComplete}
        c == IF C = {} THEN Len(log) + 1
             ELSE CHOOSE i \in C : \A j \in C : i <= j
    IN  IF k = 0 THEN <<>>
        ELSE SelectSeq(SubSeq(log, k + 1, c - 1), IsData)

SetMin(S) == CHOOSE x \in S : \A y \in S : x <= y
SetMax(S) == CHOOSE x \in S : \A y \in S : x >= y
Range(s) == {s[i] : i \in 1..Len(s)}

NonDecreasing(s) == \A i \in 1..(Len(s) - 1) : s[i] <= s[i + 1]

StoreEmpty ==
    /\ time_data = <<>> /\ pv_data = <<>> /\ sp_data = <<>>
    /\ output_data = <<>> /\ error_data = <<>> /\ p_term_data = <<>>
    /\ i_term_data = <<>> /\ d_term_data = <<>>

-----------------------------------------------------------------------------
(* Claims about the store, the min/max display and the trace (Spec) *)

\* C1: every one of the eight series has length at most max_points and all
\* eight have the same length, after any sequence of 'data' messages and
\* clear_plot calls.
C1_CapacityInvariant ==
    \A k \in 1..8 : /\ Len(store[k]) <= max_points
                    /\ Len(store[k]) = Len(time_data)

\* a full store after a clear_plot, the oldest sample having been evicted
C1_Witness ==
    /\ Len(time_data) = max_points
    /\ Len(Ingested) > max_points

\* C2: after ingesting k samples into an empty store the store holds the
\* last min(k, max_points) samples in ingestion order, and position j of
\* each of the eight series comes from the same sample.
C2_FifoEviction ==
    LET R == Retained
    IN  /\ time_data = [j \in 1..Len(R) |-> ToSeconds(R[j].time)]
        /\ pv_data = [j \in 1..Len(R) |-> R[j].pv]
        /\ sp_data = [j \in 1..Len(R) |-> R[j].sp]
        /\ output_data = [j \in 1..Len(R) |-> R[j].output]
        /\ error_data = [j \in 1..Len(R) |-> R[j].error]
        /\ p_term_data = [j \in 1..Len(R) |-> Get(R[j], "P", 0)]
        /\ i_term_data = [j \in 1..Len(R) |-> Get(R[j], "I", 0)]
        /\ d_term_data = [j \in 1..Len(R) |-> Get(R[j], "D", 0)]

\* max_points + 1 samples ingested, not all the same: the first one is gone
C2_Witness ==
    /\ Len(Ingested) = max_points + 1
    /\ Ingested[1] # Ingested[2]
    /\ Len(time_data) = max_points
    /\ time_data[1] = ToSeconds(Ingested[2].time)

\* the positions (0-based) of the samples with time >= now - d
InWindow(td, d) ==
    {j \in 0..(Len(td) - 1) : td[j + 1] >= td[Len(td)] - d * UNITS}

\* the positions (0-based) that update_plot shows
Shown(td, d) == update_plot_visible_start(td, d)..(Len(td) - 1)

\* C3 as stated: for every non-empty store and every selectable duration
\* the visible window of update_plot is exactly the set of retained samples
\* with time >= now - d (now = time of the latest sample), a suffix of the
\* store.
C3_WindowAnyStore ==
    Len(time_data) > 0 =>
        \A d \in TimeWindows : Shown(time_data, d) = InWindow(time_data, d)

\* C3 amended: the same, for a store whose times are non-decreasing.
C3_WindowOrderedStore ==
    (Len(time_data) > 0 /\ NonDecreasing(time_data)) =>
        \A d \in TimeWindows : Shown(time_data, d) = InWindow(time_data, d)

\* an ordered store of which update_plot hides the first sample and shows
\* more than the last one
C3_Witness ==
    /\ Len(time_data) >= 3
    /\ NonDecreasing(time_data)
    /\ time_data[1] < time_data[2]
    /\ update_plot_visible_start(time_data, time_window) = 1

C5_ClearFrame ==
    [][ /\ (log' = Append(log, ClearPlotEvent)) =>
               (StoreEmpty' /\ extrema' = extrema)
        /\ (log' = Append(log, ClearMinmaxEvent)) =>
               (extrema' = <<NA, NA, NA, NA, NA, NA>> /\ store' = store) ]_vars

\* clear_plot has just emptied a store while the extrema were set, and a
\* clear_minmax had happened before on a store that was not empty
C5_Witness ==
    /\ Len(log) >= 4
    /\ log[Len(log)] = ClearPlotEvent
    /\ pv_min # NA
    /\ \E i \in 2..(Len(log) - 2) :
          /\ log[i] = ClearMinmaxEvent
          /\ IsData(log[i - 1])
          /\ IsData(log[i + 1])

\* C6: the trace is the sequence of (time, pv, sp, output) of the 'data'
\* messages handled while the most recent step test was active, in handling
\* order; a 'data' message handled while no step test is active goes to the
\* store and leaves the trace unchanged.
C6_TraceIsRecording ==
    /\ [](LET R == Recorded
          IN  /\ an_time = [j \in 1..Len(R) |-> ToSeconds(R[j].time)]
              /\ an_pv = [j \in 1..Len(R) |-> R[j].pv]
              /\ an_sp = [j \in 1..Len(R) |-> R[j].sp]
              /\ an_output = [j \in 1..Len(R) |-> R[j].output])
    /\ [][ (~step_test_active /\ Len(log') = Len(log) + 1
             /\ IsData(log'[Len(log')])) =>
               /\ trace' = trace
               /\ time_data' # <<>>
               /\ time_data'[Len(time_data')] = ToSeconds(log'[Len(log')].time)
          ]_vars

\* a step test is active with two samples recorded, and a sample handled
\* before the step test is in the store only
C6_Witness ==
    /\ step_test_active
    /\ Len(an_time) = 2
    /\ Len(time_data) = 3
    /\ IsData(log[1])

\* C7: 'step_test_started' empties the trace and enters Recording, also when
\* already Recording; 'step_test_complete' leaves Recording and keeps the
\* trace, which then stays as it is until the next 'step_test_started'.
C7_StartStop ==
    [][ /\ (log' = Append(log, StepTestStarted)) =>
               (step_test_active' /\ trace' = <<<<>>, <<>>, <<>>, <<>>>>)
        /\ (log' = Append(log, StepTestComplete)) =>
               (~step_test_active' /\ trace' = trace)
        /\ (~step_test_active /\ log' # Append(log, StepTestStarted)) =>
               trace' = trace ]_vars

\* a step test was started twice, recorded a sample, was completed, and a
\* sample handled afterwards left the trace alone
C7_Witness ==
    /\ ~step_test_active
    /\ Len(an_time) = 1
    /\ Len(log) = 5
    /\ log[1] = StepTestStarted
    /\ log[2] = StepTestStarted
    /\ IsData(log[3])
    /\ log[4] = StepTestComplete
    /\ IsData(log[5])

-----------------------------------------------------------------------------
(* Claims about analyze() (SpecAnalyze) *)

Called == result.kind # "not_called"

\* the indices i >= 1 (0-based) with |sp[i] - sp[i-1]| > 0.1
StepIndices ==
    {i \in 1..(Len(an_sp) - 1) : 10 * Abs(an_sp[i + 1] - an_sp[i]) > UNITS}

RECURSIVE SumOver(_, _)
SumOver(s, S) ==
    IF S = {} THEN 0
    ELSE LET k == CHOOSE x \in S : TRUE
         IN  s[k + 1] + SumOver(s, S \ {k})

\* C8 as stated: analyze() completes without raising on every trace that
\* can be recorded, whatever its timestamps, pv and sp are.
C8_AnalyzeNeverRaises == result.kind # "raise"

\* C9: for a trace of at least 10 samples with i the smallest index >= 1
\* such that |sp[i] - sp[i-1]| > 0.1, analyze() sets step_start_time to
\* time[i], final_value to sp[i], initial_value to the mean of pv over the
\* indices max(0, i-10) .. i-1 and step_amplitude to final_value minus
\* initial_value; later setpoint changes do not alter these values.
C9_StepDetection ==
    (Called /\ Len(an_time) >= 10 /\ StepIndices # {}) =>
        LET i == SetMin(StepIndices)
            W == Max2(0, i - 10)..(i - 1)
        IN  /\ step_start_time = <<an_time[i + 1], 1>>
            /\ final_value = <<an_sp[i + 1], 1>>
            /\ initial_value[2] > 0
            /\ initial_value[1] * Cardinality(W) = initial_value[2] * SumOver(an_pv, W)
            /\ step_amplitude[2] > 0
            /\ step_amplitude[1] * initial_value[2] =
                   step_amplitude[2] * (an_sp[i + 1] * initial_value[2] - initial_value[1])

\* analyze() was called on a trace whose setpoint changes twice by more than
\* 0.1 and whose process value varies over the ten samples before the step
C9_Witness ==
    /\ Called
    /\ Len(an_time) >= 10
    /\ Cardinality(StepIndices) >= 2
    /\ SetMin(StepIndices) >= 10
    /\ \E k \in 1..SetMin(StepIndices) : an_pv[k] # an_pv[SetMin(StepIndices)]

\* C10: on a trace of fewer than 10 samples analyze() returns None and does
\* not raise, whatever the samples are.
C10_InsufficientData ==
    (Called /\ Len(an_time) < 10) => result = ReturnNone

\* analyze() was called on nine samples that contain a setpoint step
C10_Witness ==
    /\ Called
    /\ Len(an_time) = 9
    /\ StepIndices # {}
    /\ result = ReturnNone


\* C11: on a trace of at least 10 samples in which no two consecutive
\* setpoints differ by more than 0.1, analyze() returns None.
C11_NoStep ==
    (Called /\ Len(an_time) >= 10 /\ StepIndices = {}) => result = ReturnNone

\* analyze() was called on ten or more samples whose setpoint changes, but
\* by no more than 0.1
C11_Witness ==
    /\ Called
    /\ Len(an_time) >= 10
    /\ StepIndices = {}
    /\ \E k \in 1..(Len(an_sp) - 1) : an_sp[k] # an_sp[k + 1]
    /\ result = ReturnNone

C15_ClearPlotResetsExtrema ==
    [][ (log' = Append(log, ClearPlotEvent)) =>
            extrema' = <<NA, NA, NA, NA, NA, NA>> ]_vars

\* C15, amended: clear_plot changes none of the six extrema; an extremum
\* that is set becomes unset only in a clear_minmax step.
C15_ExtremaOutliveClearPlot ==
    [][ /\ (log' = Append(log, ClearPlotEvent)) =>
               /\ pv_min' = pv_min /\ pv_max' = pv_max
               /\ error_min' = error_min /\ error_max' = error_max
               /\ output_min' = output_min /\ output_max' = output_max
        /\ \A k \in 1..6 :
               (extrema[k] # NA /\ extrema'[k] = NA) =>
                   log' = Append(log, ClearMinmaxEvent) ]_vars

\* the store was cleared by clear_plot after two samples with different pv
\* and the extrema still show both; an earlier sample had been forgotten by
\* clear_minmax
C15_Witness ==
    /\ Len(log) >= 3
    /\ log[Len(log)] = ClearPlotEvent
    /\ StoreEmpty
    /\ pv_min # NA
    /\ pv_min # pv_max
    /\ output_min # output_max
    /\ \E i \in 1..Len(log) : log[i] = ClearMinmaxEvent

-----------------------------------------------------------------------------
(* Claims about the metrics; the step fields are those of the last call *)

\* the detected step index
StepIdx == SetMin(StepIndices)

\* int(step_start_time * 10), the index the program starts its scans at
ScanStart == StartIndex(step_start_time[1])

Rise10 == FAdd(initial_value, FMul(<<1, 10>>, step_amplitude))
Rise90 == FAdd(initial_value, FMul(<<9, 10>>, step_amplitude))

\* C17 as stated: when a step is detected, overshoot is
\* (M - final_value) / step_amplitude * 100 with M the maximum pv over the
\* samples from the detected step index to the end, whatever the
\* timestamps are.
C17_OvershootPostStep ==
    result.kind = "metrics" =>
        LET M == SetMax({an_pv[k + 1] : k \in StepIdx..(Len(an_pv) - 1)})
        IN  result.overshoot =
                FMul(FDiv(FSub(Frac(M), final_value), step_amplitude),
                     Frac(100 * UNITS))

\* C18 as stated: with the band 2% of the step amplitude around
\* final_value, settling_time is time[b] - step_start_time for b the last
\* post-step sample outside the band, and time[last] - step_start_time when
\* every post-step sample is within the band.
C18_SettlingPostStep ==
    result.kind = "metrics" =>
        LET band == FAbs(FMul(<<2, 100>>, step_amplitude))
            Out == {k \in StepIdx..(Len(an_pv) - 1) :
                       FGt(FAbs(FSub(Frac(an_pv[k + 1]), final_value)), band)}
        IN  result.settling_time =
                IF Out # {}
                THEN FSub(Frac(an_time[SetMax(Out) + 1]), step_start_time)
                ELSE FSub(Frac(an_time[Len(an_time)]), step_start_time)

\* the indices from the start of the scan on that reach a threshold
Reaching(threshold) ==
    {k \in ScanStart..(Len(an_pv) - 1) : FGe(Frac(an_pv[k + 1]), threshold)}

\* C19: rise_time is in the metrics only if the forward scan found an index
\* reaching the 10% threshold and an index reaching the 90% threshold, and
\* it is then time[90% index] - time[10% index].
C19_RiseTimeOnlyIfBoth ==
    (result.kind = "metrics" /\ result.rise_time # None) =>
        /\ Reaching(Rise10) # {}
        /\ Reaching(Rise90) # {}
        /\ SetMin(Reaching(Rise10)) <= SetMin(Reaching(Rise90))
        /\ result.rise_time =
               Frac(an_time[SetMin(Reaching(Rise90)) + 1]
                    - an_time[SetMin(Reaching(Rise10)) + 1])

\* a rise time that is not zero, on a trace where a later sample reaches the
\* 90% threshold again
C19_Witness ==
    /\ result.kind = "metrics"
    /\ result.rise_time # None
    /\ result.rise_time[1] > 0
    /\ Cardinality(Reaching(Rise90)) >= 2

\* the indices from the step on at which pv has fallen to a threshold
FallenTo(threshold) ==
    {k \in StepIdx..(Len(an_pv) - 1) : FGe(threshold, Frac(an_pv[k + 1]))}

\* C20 as stated: for a negative step a threshold counts as reached when pv
\* has fallen to or below it, so a falling response that crosses the 10%
\* level and later the 90% level has rise_time =
\* time[90% crossing] - time[10% crossing] > 0.
C20_FallingRise ==
    (/\ result.kind = "metrics"
     /\ step_amplitude[1] < 0
     /\ FallenTo(Rise90) # {}
     /\ SetMin(FallenTo(Rise10)) < SetMin(FallenTo(Rise90))) =>
        /\ result.rise_time # None
        /\ result.rise_time =
               Frac(an_time[SetMin(FallenTo(Rise90)) + 1]
                    - an_time[SetMin(FallenTo(Rise10)) + 1])


-----------------------------------------------------------------------------
(* Claims about the hand-off queue and the reader *)

\* the 'data' messages among the first n handled events
DataHandled == SelectSeq(log, IsData)

\* C13: each process_data call handles the messages of data_queue one at a
\* time in the order they were put, and returns only when the queue is
\* empty; for each 'data' message the append to the store, the append to the
\* trace (when a step test is active) and the min/max update are complete
\* before the next message is taken.
C13_DrainInOrder ==
    /\ [](taken \o data_queue = puts)
    /\ [][ (tick = "process_data" /\ tick' = "after") => data_queue = <<>> ]_vars
    /\ [][ taken' # taken =>
             /\ taken' = Append(taken, Head(data_queue))
             /\ log = SelectSeq(taken, HasFields)
             /\ Len(time_data) = Min2(Len(DataHandled), max_points)
             /\ Len(pv_data) = Len(time_data)
             /\ Len(d_term_data) = Len(time_data)
             /\ Len(an_time) = Len(Recorded)
             /\ Len(an_output) = Len(an_time)
             /\ (pv_min # NA) = (DataHandled # <<>>)
             /\ (output_max # NA) = (DataHandled # <<>>) ]_vars

\* one call of process_data has handled 'step_test_started' and then a 'data'
\* message, which is in the store, in the trace and in the min/max display,
\* and has returned
C13_Witness ==
    /\ puts = <<StepTestStarted, Sample>>
    /\ taken = puts
    /\ log = taken
    /\ tick = "after"
    /\ Len(time_data) = 1
    /\ Len(an_time) = 1
    /\ pv_min # NA

\* the complete lines of a byte sequence, in order
RECURSIVE LinesOf(_)
LinesOf(b) ==
    IF HasNewline(b) THEN <<SplitLine(b)>> \o LinesOf(SplitRest(b)) ELSE <<>>

\* a line that json.loads turns into a message
Decodes(line) == strip(line) # <<>> /\ loads(strip(line)).raises = "no"

MessageOf(line) == loads(strip(line)).msg

\* the messages of the lines of b that decode
RECURSIVE Decoded(_)
Decoded(lines) ==
    IF lines = <<>> THEN <<>>
    ELSE (IF Decodes(Head(lines)) THEN <<MessageOf(Head(lines))>> ELSE <<>>)
         \o Decoded(Tail(lines))

\* C14 as stated: a received line that fails to decode as JSON puts nothing
\* on data_queue, changes neither the store, the min/max display nor the
\* trace, and the reader goes on with the lines that follow: the reader
\* never ends while the port is open, and once it has read everything that
\* was sent, the messages put are those of the lines that decode.
C14_UndecodableLineSkipped ==
    /\ [](serial_port # None => thread # "ended")
    /\ []((thread = "poll" /\ in_waiting = <<>>) =>
             puts = Decoded(LinesOf(sent)))
    /\ [][ buffer' # buffer => UNCHANGED <<store, extrema, trace>> ]_vars


-----------------------------------------------------------------------------
(* Claims about the connection *)

\* C16: once a step test is active it stays active until a
\* 'step_test_complete' message is handled; data and status messages,
\* clear_plot, clear_minmax, disconnect_serial, connect_serial and a further
\* 'step_test_started' do not end it.
C16_ActiveUntilComplete ==
    [][ (step_test_active /\ log' # Append(log, StepTestComplete)) =>
            step_test_active' ]_vars

\* the step test is still active although the port was closed after it
\* started and another event was handled since
C16_Witness ==
    /\ step_test_active
    /\ serial_port = None
    /\ LET k == LastIndexOf(StepTestStarted)
       IN  /\ k > 0
           /\ \E i \in (k + 1)..Len(log) : log[i] = DisconnectEvent
           /\ \E i \in (k + 1)..Len(log) :
                 log[i].type \in {"status", "data", "clear_plot", "clear_minmax"}


-----------------------------------------------------------------------------
(* Claims about one ingest *)

\* C21: handling one 'data' message appends one sample to each of the eight
\* series (the oldest one leaves a full series): time is the message time
\* divided by 1000, pv, sp, output and error are those of the message (error
\* is not sp - pv), P, I and D are those of the message, 0.0 when absent.
C21_OneIngest ==
    [][ \A m \in DataMsgs :
          log' = Append(log, m) =>
            /\ time_data' = LastN(Append(time_data, (m.time * UNITS) \div 1000),
                                  max_points)
            /\ pv_data' = LastN(Append(pv_data, m.pv), max_points)
            /\ sp_data' = LastN(Append(sp_data, m.sp), max_points)
            /\ output_data' = LastN(Append(output_data, m.output), max_points)
            /\ error_data' = LastN(Append(error_data, m.error), max_points)
            /\ p_term_data' =
                 LastN(Append(p_term_data, IF "P" \in DOMAIN m THEN m.P ELSE 0),
                       max_points)
            /\ i_term_data' =
                 LastN(Append(i_term_data, IF "I" \in DOMAIN m THEN m.I ELSE 0),
                       max_points)
            /\ d_term_data' =
                 LastN(Append(d_term_data, IF "D" \in DOMAIN m THEN m.D ELSE 0),
                       max_points) ]_vars

\* a message without P, I and D, whose error is not sp - pv, has just been
\* ingested into a store that was full
C21_Witness ==
    /\ Len(log) > max_points
    /\ IsData(log[Len(log)])
    /\ "P" \notin DOMAIN log[Len(log)]
    /\ Len(Ingested) > max_points
    /\ p_term_data[Len(p_term_data)] = 0
    /\ p_term_data[1] # 0
    /\ error_data[Len(error_data)]
         # sp_data[Len(sp_data)] - pv_data[Len(pv_data)]
    /\ time_data[Len(time_data)] = 80 * UNITS


-----------------------------------------------------------------------------
(* Claims about save_data *)

\* C24: save_data on a non-empty store writes one row per retained sample
\* in store order, with the time column time[i] - time[0] (0 in the first
\* row, also after the oldest samples were evicted) and the seven other
\* columns from the same index; on an empty store it writes nothing.
C24_SavedRows ==
    [][ (log' = Append(log, [type |-> "save_data", filename |-> TRUE])) =>
          IF StoreEmpty THEN csv' = csv
          ELSE /\ Len(csv') = Len(time_data)
               /\ csv'[1][1] = 0
               /\ \A i \in 1..Len(time_data) :
                     /\ csv'[i][1] = time_data[i] - time_data[1]
                     /\ \A c \in 2..8 : csv'[i][c] = store[c][i] ]_vars

\* a file was written from a full store whose first samples had been
\* evicted, so that the first retained sample is not at time 0
C24_Witness ==
    /\ Len(log) > max_points + 1
    /\ log[Len(log)] = [type |-> "save_data", filename |-> TRUE]
    /\ Len(Ingested) > max_points
    /\ Len(csv) = max_points
    /\ time_data[1] > 0
    /\ csv[1][1] = 0
    /\ csv[Len(csv)][1] > 0


-----------------------------------------------------------------------------
(* Further claims about the metrics *)

\* the forward scan finds a 90% index, and a 10% index at or before it
ScanFindsBoth ==
    /\ Reaching(Rise90) # {}
    /\ \E k \in Reaching(Rise10) : k <= SetMin(Reaching(Rise90))

\* C26 as stated: whenever the forward scan of analyze() finds both an
\* index reaching the 10% threshold and an index reaching the 90%
\* threshold, rise_time is in the metrics, also when a found index is 0.
C26_RiseTimeWheneverBoth ==
    (result.kind = "metrics" /\ ScanFindsBoth) => result.rise_time # None

\* C27 as stated: for every trace with non-decreasing timestamps in which a
\* step is detected, settling_time >= 0.
C27_SettlingNotNegative ==
    (result.kind = "metrics" /\ NonDecreasing(an_time)) =>
        /\ result.settling_time # None
        /\ result.settling_time[1] >= 0


-----------------------------------------------------------------------------
(* Claims about messages that are not samples *)

\* C23 as stated: handling a 'status' message, or a message whose type is
\* none of 'data', 'status', 'step_test_started', 'step_test_complete',
\* leaves the eight series, the six extrema, the trace and step_test_active
\* unchanged, and process_data goes on with the messages queued behind it.
C23_StatusAndOtherSkipped ==
    [][ \A m \in QueueMsgs :
          (/\ "type" \in DOMAIN m
           /\ m.type \notin {"data", "step_test_started", "step_test_complete"}
           /\ taken' = Append(taken, m)) =>
             /\ UNCHANGED <<store, extrema, trace, step_test_active>>
             /\ tick' = "process_data" ]_vars

\* C25 as stated: whatever messages are queued (also values that are not
\* objects and objects without 'type', 'time', 'pv', 'sp', 'output' or
\* 'error'), each tick of update_plot_timer finishes and schedules the next
\* one, so that every message put on data_queue is handled.
C25_TickAlwaysRescheduled ==
    /\ tick # "raised"
    /\ log = taken


-----------------------------------------------------------------------------
(* Claims about the reader thread *)

core == <<store, extrema, trace, step_test_active>>

\* C22: in every interleaving of the reader thread with the GUI tick the
\* reader only puts messages on data_queue; the eight series, the six
\* extrema, the trace and step_test_active are written only by process_data
\* on the GUI thread.
C22_OnlyConsumerWrites ==
    [][ /\ core' # core =>
             (taken' # taken /\ UNCHANGED <<thread, buffer, in_waiting, puts>>)
        /\ (thread' # thread \/ buffer' # buffer \/ puts' # puts) =>
             /\ core' = core
             /\ taken' = taken
             /\ \/ data_queue' = data_queue
                \/ \E m \in {Sample, StepTestStarted, BareData, Accent} :
                      data_queue' = Append(data_queue, m) ]_vars

\* the reader is inside its line loop with a second message in its buffer
\* while process_data has stored the first sample and has not returned
C22_Witness ==
    /\ thread = "lines"
    /\ buffer # <<>>
    /\ tick = "process_data"
    /\ Len(time_data) = 1
    /\ taken = <<Sample>>
    /\ puts = <<Sample>>

\* f is the first Len(f) elements of g
IsPrefix(f, g) == Len(f) <= Len(g) /\ f = SubSeq(g, 1, Len(f))

\* what follows the last "\n" of a byte sequence
RECURSIVE Fragment(_)
Fragment(b) == IF HasNewline(b) THEN Fragment(SplitRest(b)) ELSE b

\* C29 as stated: however the stream is split into read chunks, the reader
\* puts one message per newline-terminated, non-blank, valid JSON line, once
\* each and in stream order, and a trailing fragment without a newline
\* stays in the buffer until its newline arrives.
C29_OncePerValidLine ==
    /\ IsPrefix(puts, Decoded(LinesOf(sent)))
    /\ (in_waiting = <<>> /\ thread # "lines") =>
          /\ puts = Decoded(LinesOf(sent))
          /\ buffer = Fragment(sent)

\* C28: across connects, disconnects and reader-thread steps at most one
\* serial_read_thread is inside its read loop, and none has ended with an
\* exception nobody handled
C28_OneReaderInLoop ==
    /\ Cardinality({i \in 1..Len(earlier) : InLoop(earlier[i])})
          + (IF InLoop(thread) THEN 1 ELSE 0) <= 1
    /\ thread # "crashed"
    /\ \A i \in 1..Len(earlier) : earlier[i] # "crashed"

====
